---- MODULE Spec2Model ----
(***************************************************************************)
(* Task persistence layer of lambda-starter (src/services/task-service.ts) *)
(* over a single DynamoDB table keyed by pk.  Every service call is one    *)
(* request to the table: a call first builds and sends its command (the    *)
(* ...Call actions), the table then evaluates the command atomically and   *)
(* the code after the await computes what the call returns or throws (the  *)
(* ...Return actions).  Several calls may be in flight at once.            *)
(***************************************************************************)
EXTENDS Integers, Sequences, FiniteSets, TLC

(* ---------------------------- bounds ---------------------------------- *)
NumIds == 2
NumCallers == 2
MaxClock == 1
MaxCalls == 3

(* ------------------------- input domains ------------------------------ *)
\* the ids randomUUID() returns, in the order it returns them, and an id it
\* never returns
Uuid(i) == "u" \o ToString(i)
UnknownId == "u0"
Callers == 1..NumCallers
Details == {"", "d"}
DueAts == {"t"}

VARIABLES
  table,     \* the DynamoDB table: a function from the stored pks to items
  clock,     \* the wall clock read by new Date(), in milliseconds
  issued,    \* how many ids randomUUID() has returned so far
  pc,        \* per caller: "idle", "sent" (command in flight) or "done"
  command,   \* per caller: the suspended call's arguments and locals, and the
             \* command object it passed to dynamoDocClient.send
  response,  \* per caller: what dynamoDocClient.send resolved or rejected with
  outcome,   \* per caller: which call finished and what it returned or threw
  mutated,   \* pks on which an update or a delete has taken effect
  ncalls,    \* number of service calls started so far
  nrequests, \* number of requests the table has handled so far
  body,      \* the parsed JSON body a handler passes to a schema
  parsed,    \* what the schema made of body
  event,     \* the API Gateway event a create or update handler received
  result     \* the API Gateway result that handler returned

vars ==
  <<table, clock, issued, pc, command, response, outcome, mutated, ncalls,
    nrequests, body, parsed, event, result>>

NoCommand == [op |-> "none"]
NoResponse == [error |-> "idle"]
NoOutcome == [kind |-> "none"]
NoBody == << >>
NotParsed == [schema |-> "none"]
NoEvent == [handler |-> "none"]
NoResult == [statusCode |-> 0]

(* ------------------------- models/task.ts ------------------------------ *)
\* TaskKeys.pk(id): the fixed prefix TASK# followed by the id
TaskKeysPk(id) == "TASK#" \o id

\* toTask(item): every attribute of the item except pk
toTask(item) == [f \in (DOMAIN item) \ {"pk"} |-> item[f]]

(* ---------------------- create / update inputs ------------------------ *)
\* a record built from a set of <<field, value>> pairs with distinct fields
RecordOf(pairs) ==
  [f \in {pr[1] : pr \in pairs} |-> (CHOOSE pr \in pairs : pr[1] = f)[2]]

OptionalField(name, values) == {{}} \cup {{<<name, v>>} : v \in values}

\* the values tried for the two fields every stored task has: a title with
\* its isComplete flag
TitleAndFlag ==
  {{<<"title", "a">>, <<"isComplete", FALSE>>},
   {<<"title", "b">>, <<"isComplete", TRUE>>}}

\* CreateTaskDto: title required; detail, dueAt, isComplete optional
CreateTaskDtos ==
  { RecordOf(r \cup d \cup u) :
      r \in TitleAndFlag \cup {{<<"title", "a">>}},
      d \in OptionalField("detail", Details),
      u \in OptionalField("dueAt", DueAts) }

\* UpdateTaskDto: title and isComplete required; detail, dueAt optional
UpdateTaskDtos ==
  { RecordOf(r \cup d \cup u) :
      r \in TitleAndFlag,
      d \in OptionalField("detail", Details),
      u \in OptionalField("dueAt", DueAts) }

\* JavaScript truthiness of an optional string property: undefined and the
\* empty string are falsy
Truthy(dto, f) == f \in DOMAIN dto /\ dto[f] # ""

(* --------------------------- the table --------------------------------- *)
\* PutCommand: unconditional write of the item under its pk
PutItem(t, item) ==
  [k \in (DOMAIN t) \cup {item.pk} |-> IF k = item.pk THEN item ELSE t[k]]

\* an UpdateExpression of the SET part alone
UpdatedItemSetOnly(item, set, remove) ==
  [f \in (DOMAIN item) \cup (DOMAIN set) |->
      IF f \in DOMAIN set THEN set[f] ELSE item[f]]

\* UpdateCommand, SET part then REMOVE part, applied to an existing item
UpdatedItem(item, set, remove) ==
  [f \in ((DOMAIN item) \cup (DOMAIN set)) \ remove |->
      IF f \in DOMAIN set THEN set[f] ELSE item[f]]

UpdateItem(t, key, set, remove) ==
  [k \in DOMAIN t |-> IF k = key THEN UpdatedItem(t[k], set, remove) ELSE t[k]]

\* DeleteCommand: removal of the item stored under key
DeleteItem(t, key) == [k \in (DOMAIN t) \ {key} |-> t[k]]

\* ConditionExpression attribute_exists(pk)
AttributeExistsPk(t, key) == key \in DOMAIN t

\* the orders in which a scan may report the stored items
ScanOrders(t) ==
  {s \in [1..Cardinality(DOMAIN t) -> DOMAIN t] :
     \A i, j \in DOMAIN s : s[i] = s[j] => i = j}

\* What the table may do with a command: the table afterwards and the
\* response the sender gets.  A request may also fail in transport
\* (network, throttling), which leaves the table as it was.
Resolved(t, fields) == [table |-> t, response |-> fields]
Rejected(t, name) == [table |-> t, response |-> [error |-> name]]

PutEffects(t, cmd) == {Resolved(PutItem(t, cmd.Item), [error |-> "none"])}

GetEffects(t, cmd) ==
  {IF cmd.Key \in DOMAIN t
     THEN Resolved(t, [error |-> "none", Item |-> t[cmd.Key]])
     ELSE Resolved(t, [error |-> "none"])}

\* an UpdateCommand answering with the attributes as they were before it
UpdateEffectsAllOld(t, cmd) ==
  {IF AttributeExistsPk(t, cmd.Key)
     THEN Resolved(UpdateItem(t, cmd.Key, cmd.set, cmd.remove),
                   [error |-> "none", Attributes |-> t[cmd.Key]])
     ELSE Rejected(t, "ConditionalCheckFailedException")}

\* an UpdateCommand sent without ReturnValues: applied, answered without
\* Attributes
UpdateEffectsNoAttributes(t, cmd) ==
  {IF AttributeExistsPk(t, cmd.Key)
     THEN Resolved(UpdateItem(t, cmd.Key, cmd.set, cmd.remove), [error |-> "none"])
     ELSE Rejected(t, "ConditionalCheckFailedException")}

UpdateEffects(t, cmd) ==
  {IF AttributeExistsPk(t, cmd.Key)
     THEN LET new == UpdateItem(t, cmd.Key, cmd.set, cmd.remove)
          IN  Resolved(new, [error |-> "none", Attributes |-> new[cmd.Key]])
     ELSE Rejected(t, "ConditionalCheckFailedException")}

\* a DeleteCommand sent without its ConditionExpression
DeleteEffectsUnconditional(t, cmd) ==
  {Resolved(DeleteItem(t, cmd.Key), [error |-> "none"])}

DeleteEffects(t, cmd) ==
  {IF AttributeExistsPk(t, cmd.Key)
     THEN Resolved(DeleteItem(t, cmd.Key), [error |-> "none"])
     ELSE Rejected(t, "ConditionalCheckFailedException")}

\* ScanCommand: the stored items in some order; a response over no items
\* may come without its Items member
ScanEffects(t, cmd) ==
  {Resolved(t, [error |-> "none", Items |-> [i \in DOMAIN s |-> t[s[i]]]]) :
     s \in ScanOrders(t)}
  \cup (IF DOMAIN t = {} THEN {Resolved(t, [error |-> "none"])} ELSE {})

\* a table whose failing update request leaves its SET part applied
EffectsTornUpdate(t, cmd) ==
  {Rejected(IF cmd.op = "Update" /\ AttributeExistsPk(t, cmd.Key)
              THEN [t EXCEPT ![cmd.Key] = UpdatedItemSetOnly(t[cmd.Key], cmd.set, cmd.remove)]
              ELSE t,
            "StoreError")} \cup
  CASE cmd.op = "Put" -> PutEffects(t, cmd)
    [] cmd.op = "Get" -> GetEffects(t, cmd)
    [] cmd.op = "Update" -> UpdateEffects(t, cmd)
    [] cmd.op = "Delete" -> DeleteEffects(t, cmd)
    [] cmd.op = "Scan" -> ScanEffects(t, cmd)

Effects(t, cmd) ==
  {Rejected(t, "StoreError")} \cup
  CASE cmd.op = "Put" -> PutEffects(t, cmd)
    [] cmd.op = "Get" -> GetEffects(t, cmd)
    [] cmd.op = "Update" -> UpdateEffects(t, cmd)
    [] cmd.op = "Delete" -> DeleteEffects(t, cmd)
    [] cmd.op = "Scan" -> ScanEffects(t, cmd)

(* ------------------------------ Init ----------------------------------- *)
\* no request has been received yet
StoreInit ==
  /\ table = << >>
  /\ clock = 0
  /\ issued = 0
  /\ pc = [p \in Callers |-> "idle"]
  /\ command = [p \in Callers |-> NoCommand]
  /\ response = [p \in Callers |-> NoResponse]
  /\ outcome = [p \in Callers |-> NoOutcome]
  /\ mutated = {}
  /\ ncalls = 0
  /\ nrequests = 0

Init ==
  /\ StoreInit
  /\ body = NoBody /\ parsed = NotParsed
  /\ event = NoEvent /\ result = NoResult

\* time passes
Tick ==
  /\ clock < MaxClock
  /\ clock' = clock + 1
  /\ UNCHANGED <<table, issued, pc, command, response, outcome, mutated, ncalls>>
  /\ UNCHANGED <<nrequests, body, parsed, event, result>>

\* the ids a client can pass to getTask, updateTask and deleteTask: those of
\* the tasks whose creation has completed, and ids that were never issued
BeingCreated ==
  {command[q].Item.id : q \in {r \in Callers : command[r].op = "Put"}}

CallableIds == ({Uuid(i) : i \in 1..issued} \ BeingCreated) \cup {UnknownId}

CanCall(p) == pc[p] # "sent" /\ ncalls < MaxCalls

\* dynamoDocClient.send(command): the call is suspended at its await
Send(p, cmd) ==
  /\ pc' = [pc EXCEPT ![p] = "sent"]
  /\ command' = [command EXCEPT ![p] = cmd]
  /\ ncalls' = ncalls + 1
  /\ UNCHANGED <<table, clock, response, outcome, mutated, nrequests, body,
                 parsed, event, result>>

\* a call that sends its command again when the request failed
ReceiveRetrying(p, e, out) ==
  /\ table' = e.table
  /\ nrequests' = nrequests + 1
  /\ mutated' = IF command[p].op \in {"Update", "Delete"} /\ e.response.error = "none"
                  THEN mutated \cup {command[p].Key} ELSE mutated
  /\ IF e.response.error = "StoreError"
       THEN UNCHANGED <<pc, response, command, outcome>>
       ELSE /\ pc' = [pc EXCEPT ![p] = "done"]
            /\ response' = [response EXCEPT ![p] = e.response]
            /\ command' = [command EXCEPT ![p] = NoCommand]
            /\ outcome' = [outcome EXCEPT ![p] = [call |-> command[p].call] @@ out]
  /\ UNCHANGED <<clock, issued, ncalls, body, parsed, event, result>>

\* the table handles the command of caller p with effect e, and the call
\* ends with outcome out
Receive(p, e, out) ==
  /\ table' = e.table
  /\ nrequests' = nrequests + 1
  /\ mutated' = IF command[p].op \in {"Update", "Delete"} /\ e.response.error = "none"
                  THEN mutated \cup {command[p].Key} ELSE mutated
  /\ pc' = [pc EXCEPT ![p] = "done"]
  /\ response' = [response EXCEPT ![p] = e.response]
  /\ command' = [command EXCEPT ![p] = NoCommand]
  /\ outcome' = [outcome EXCEPT ![p] = [call |-> command[p].call] @@ out]
  /\ UNCHANGED <<clock, issued, ncalls, body, parsed, event, result>>

Returned(kind, value) == [kind |-> kind, value |-> value]
Thrown(error) == [kind |-> "throw", error |-> error]

(* --------------------------- createTask -------------------------------- *)
\* a taskItem whose updatedAt is left at the epoch
taskItemUnstamped(dto, id, now) ==
  RecordOf(
    {<<"pk", TaskKeysPk(id)>>, <<"id", id>>, <<"title", dto.title>>}
    \cup (IF Truthy(dto, "detail") THEN {<<"detail", dto.detail>>} ELSE {})
    \cup (IF Truthy(dto, "dueAt") THEN {<<"dueAt", dto.dueAt>>} ELSE {})
    \cup {<<"isComplete",
            IF "isComplete" \in DOMAIN dto THEN dto.isComplete ELSE FALSE>>,
          <<"createdAt", now>>, <<"updatedAt", 0>>})

\* a taskItem without the default of isComplete
taskItemNoDefault(dto, id, now) ==
  RecordOf(
    {<<"pk", TaskKeysPk(id)>>, <<"id", id>>, <<"title", dto.title>>}
    \cup (IF Truthy(dto, "detail") THEN {<<"detail", dto.detail>>} ELSE {})
    \cup (IF Truthy(dto, "dueAt") THEN {<<"dueAt", dto.dueAt>>} ELSE {})
    \cup (IF "isComplete" \in DOMAIN dto
            THEN {<<"isComplete", dto.isComplete>>} ELSE {})
    \cup {<<"createdAt", now>>, <<"updatedAt", now>>})

\* a taskItem stored under the bare id instead of the key derived from it
taskItemKeyedById(dto, id, now) ==
  RecordOf(
    {<<"pk", id>>, <<"id", id>>, <<"title", dto.title>>}
    \cup (IF Truthy(dto, "detail") THEN {<<"detail", dto.detail>>} ELSE {})
    \cup (IF Truthy(dto, "dueAt") THEN {<<"dueAt", dto.dueAt>>} ELSE {})
    \cup {<<"isComplete",
            IF "isComplete" \in DOMAIN dto THEN dto.isComplete ELSE FALSE>>,
          <<"createdAt", now>>, <<"updatedAt", now>>})

\* a taskItem that writes null for the optional fields its input leaves out
taskItemNullOptional(dto, id, now) ==
  RecordOf(
    {<<"pk", TaskKeysPk(id)>>, <<"id", id>>, <<"title", dto.title>>,
     <<"detail", IF Truthy(dto, "detail") THEN dto.detail ELSE "null">>,
     <<"dueAt", IF Truthy(dto, "dueAt") THEN dto.dueAt ELSE "null">>,
     <<"isComplete",
       IF "isComplete" \in DOMAIN dto THEN dto.isComplete ELSE FALSE>>,
     <<"createdAt", now>>, <<"updatedAt", now>>})

\* the taskItem createTask builds from its input, a fresh id and now
taskItem(dto, id, now) ==
  RecordOf(
    {<<"pk", TaskKeysPk(id)>>, <<"id", id>>, <<"title", dto.title>>}
    \cup (IF Truthy(dto, "detail") THEN {<<"detail", dto.detail>>} ELSE {})
    \cup (IF Truthy(dto, "dueAt") THEN {<<"dueAt", dto.dueAt>>} ELSE {})
    \cup {<<"isComplete",
            IF "isComplete" \in DOMAIN dto THEN dto.isComplete ELSE FALSE>>,
          <<"createdAt", now>>, <<"updatedAt", now>>})

\* the record this construction gives for a Task t: the key derived from its
\* id, its fields copied as createTask copies those of its input, and its
\* own timestamps
toRecord(t) == [taskItem(t, t.id, t.createdAt) EXCEPT !.updatedAt = t.updatedAt]

\* createTask writing every task under the first id
createTaskCallSameId(p) ==
  /\ CanCall(p)
  /\ issued < NumIds
  /\ issued' = issued + 1
  /\ \E dto \in CreateTaskDtos :
       Send(p, [op |-> "Put", call |-> "createTask", dto |-> dto, now |-> clock,
                Item |-> taskItem(dto, Uuid(1), clock)])

\* createTask up to its await: randomUUID(), new Date(), the PutCommand
createTaskCall(p) ==
  /\ CanCall(p)
  /\ issued < NumIds
  /\ issued' = issued + 1
  /\ \E dto \in CreateTaskDtos :
       Send(p, [op |-> "Put", call |-> "createTask", dto |-> dto, now |-> clock,
                Item |-> taskItem(dto, Uuid(issued + 1), clock)])

\* createTask returning a task it stamps again after the await
createTaskResultRestamped(cmd, resp) ==
  IF resp.error = "none"
    THEN Returned("task", toTask(taskItem(cmd.dto, cmd.Item.id, clock)))
  ELSE Thrown(resp.error)

\* what createTask returns or throws, given the response to its command
createTaskResult(cmd, resp) ==
  IF resp.error = "none" THEN Returned("task", toTask(cmd.Item))
  ELSE Thrown(resp.error)

createTaskReturn(p) ==
  /\ pc[p] = "sent" /\ command[p].op = "Put"
  /\ \E e \in Effects(table, command[p]) :
       Receive(p, e, createTaskResult(command[p], e.response))

(* ----------------------------- getTask -------------------------------- *)
getTaskCall(p) ==
  /\ CanCall(p)
  /\ \E id \in CallableIds :
       Send(p, [op |-> "Get", call |-> "getTask", id |-> id,
                Key |-> TaskKeysPk(id)])
  /\ UNCHANGED issued

\* getTask without its test of response.Item: decoding the absent item fails
getTaskResultNoItemTest(resp) ==
  IF resp.error = "none"
    THEN IF "Item" \notin DOMAIN resp THEN Thrown("TypeError")
         ELSE Returned("task", toTask(resp.Item))
  ELSE Thrown(resp.error)

getTaskResult(resp) ==
  IF resp.error = "none"
    THEN IF "Item" \notin DOMAIN resp THEN Returned("null", "null")
         ELSE Returned("task", toTask(resp.Item))
  ELSE Thrown(resp.error)

getTaskReturn(p) ==
  /\ pc[p] = "sent" /\ command[p].op = "Get"
  /\ \E e \in Effects(table, command[p]) :
       Receive(p, e, getTaskResult(e.response))

(* ---------------------------- updateTask ------------------------------- *)
\* SET built with the truthiness test createTask uses for optional fields
setExpressionsTruthy(dto, now) ==
  RecordOf(
    {<<"title", dto.title>>, <<"isComplete", dto.isComplete>>,
     <<"updatedAt", now>>}
    \cup (IF Truthy(dto, "detail") THEN {<<"detail", dto.detail>>} ELSE {})
    \cup (IF Truthy(dto, "dueAt") THEN {<<"dueAt", dto.dueAt>>} ELSE {}))

\* SET that also stamps createdAt
setExpressionsRestamp(dto, now) ==
  RecordOf(
    {<<"title", dto.title>>, <<"isComplete", dto.isComplete>>,
     <<"updatedAt", now>>, <<"createdAt", now>>}
    \cup (IF "detail" \in DOMAIN dto THEN {<<"detail", dto.detail>>} ELSE {})
    \cup (IF "dueAt" \in DOMAIN dto THEN {<<"dueAt", dto.dueAt>>} ELSE {}))

\* SET that leaves updatedAt out
setExpressionsNoStamp(dto, now) ==
  RecordOf(
    {<<"title", dto.title>>, <<"isComplete", dto.isComplete>>}
    \cup (IF "detail" \in DOMAIN dto THEN {<<"detail", dto.detail>>} ELSE {})
    \cup (IF "dueAt" \in DOMAIN dto THEN {<<"dueAt", dto.dueAt>>} ELSE {}))

\* SET that stamps updatedAt with the epoch instead of now
setExpressionsEpoch(dto, now) ==
  RecordOf(
    {<<"title", dto.title>>, <<"isComplete", dto.isComplete>>,
     <<"updatedAt", 0>>}
    \cup (IF "detail" \in DOMAIN dto THEN {<<"detail", dto.detail>>} ELSE {})
    \cup (IF "dueAt" \in DOMAIN dto THEN {<<"dueAt", dto.dueAt>>} ELSE {}))

\* the SET part of the update expression with its attribute values
setExpressions(dto, now) ==
  RecordOf(
    {<<"title", dto.title>>, <<"isComplete", dto.isComplete>>,
     <<"updatedAt", now>>}
    \cup (IF "detail" \in DOMAIN dto THEN {<<"detail", dto.detail>>} ELSE {})
    \cup (IF "dueAt" \in DOMAIN dto THEN {<<"dueAt", dto.dueAt>>} ELSE {}))

\* an update expression without a REMOVE part
removeExpressionsNone(dto) == {}

\* the REMOVE part of the update expression
removeExpressions(dto) ==
  (IF "detail" \in DOMAIN dto THEN {} ELSE {"detail"})
  \cup (IF "dueAt" \in DOMAIN dto THEN {} ELSE {"dueAt"})

\* updateTask up to its await: new Date(), the UpdateCommand
updateTaskCall(p) ==
  /\ CanCall(p)
  /\ \E id \in CallableIds, dto \in UpdateTaskDtos :
       Send(p, [op |-> "Update", call |-> "updateTask", id |-> id, dto |-> dto,
                now |-> clock, Key |-> TaskKeysPk(id),
                set |-> setExpressions(dto, clock),
                remove |-> removeExpressions(dto)])
  /\ UNCHANGED issued

\* updateTask without the ConditionalCheckFailedException branch of its catch
updateTaskResultNoCatch(resp) ==
  IF resp.error = "none"
    THEN IF "Attributes" \notin DOMAIN resp THEN Returned("null", "null")
         ELSE Returned("task", toTask(resp.Attributes))
  ELSE Thrown(resp.error)

\* updateTask returning response.Attributes as they come, not decoded
updateTaskResultUndecoded(resp) ==
  IF resp.error = "none"
    THEN IF "Attributes" \notin DOMAIN resp THEN Returned("null", "null")
         ELSE Returned("task", resp.Attributes)
  ELSE IF resp.error = "ConditionalCheckFailedException"
    THEN Returned("null", "null")
  ELSE Thrown(resp.error)

\* updateTask with a catch block that answers not-found to every failure
updateTaskResultCatchAll(resp) ==
  IF resp.error = "none"
    THEN IF "Attributes" \notin DOMAIN resp THEN Returned("null", "null")
         ELSE Returned("task", toTask(resp.Attributes))
  ELSE Returned("null", "null")

updateTaskResult(resp) ==
  IF resp.error = "none"
    THEN IF "Attributes" \notin DOMAIN resp THEN Returned("null", "null")
         ELSE Returned("task", toTask(resp.Attributes))
  ELSE IF resp.error = "ConditionalCheckFailedException"
    THEN Returned("null", "null")
  ELSE Thrown(resp.error)

updateTaskReturn(p) ==
  /\ pc[p] = "sent" /\ command[p].op = "Update"
  /\ \E e \in Effects(table, command[p]) :
       Receive(p, e, updateTaskResult(e.response))

(* ---------------------------- deleteTask ------------------------------- *)
deleteTaskCall(p) ==
  /\ CanCall(p)
  /\ \E id \in CallableIds :
       Send(p, [op |-> "Delete", call |-> "deleteTask", id |-> id,
                Key |-> TaskKeysPk(id)])
  /\ UNCHANGED issued

\* deleteTask without the catch of ConditionalCheckFailedException
deleteTaskResultNoCatch(resp) ==
  IF resp.error = "none" THEN Returned("bool", TRUE) ELSE Thrown(resp.error)

\* deleteTask reporting success whatever the request came to
deleteTaskResultAlwaysTrue(resp) == Returned("bool", TRUE)

deleteTaskResult(resp) ==
  IF resp.error = "none" THEN Returned("bool", TRUE)
  ELSE IF resp.error = "ConditionalCheckFailedException"
    THEN Returned("bool", FALSE)
  ELSE Thrown(resp.error)

deleteTaskReturn(p) ==
  /\ pc[p] = "sent" /\ command[p].op = "Delete"
  /\ \E e \in Effects(table, command[p]) :
       Receive(p, e, deleteTaskResult(e.response))

(* ----------------------------- listTasks ------------------------------- *)
listTasksCall(p) ==
  /\ CanCall(p)
  /\ Send(p, [op |-> "Scan", call |-> "listTasks"])
  /\ UNCHANGED issued

\* listTasks without the default of response.Items
listTasksResultNoDefault(resp) ==
  IF resp.error = "none"
    THEN IF "Items" \in DOMAIN resp
           THEN Returned("list", [i \in DOMAIN resp.Items |-> toTask(resp.Items[i])])
           ELSE Thrown("TypeError")
  ELSE Thrown(resp.error)

listTasksResult(resp) ==
  IF resp.error = "none"
    THEN LET taskItems == IF "Items" \in DOMAIN resp THEN resp.Items ELSE << >>
         IN  Returned("list", [i \in DOMAIN taskItems |-> toTask(taskItems[i])])
  ELSE Thrown(resp.error)

listTasksReturn(p) ==
  /\ pc[p] = "sent" /\ command[p].op = "Scan"
  /\ \E e \in Effects(table, command[p]) :
       Receive(p, e, listTasksResult(e.response))

(* --------------------------- specification ----------------------------- *)
Next ==
  \/ Tick
  \/ \E p \in Callers : createTaskCall(p)
  \/ \E p \in Callers : createTaskReturn(p)
  \/ \E p \in Callers : getTaskCall(p)
  \/ \E p \in Callers : getTaskReturn(p)
  \/ \E p \in Callers : updateTaskCall(p)
  \/ \E p \in Callers : updateTaskReturn(p)
  \/ \E p \in Callers : deleteTaskCall(p)
  \/ \E p \in Callers : deleteTaskReturn(p)
  \/ \E p \in Callers : listTasksCall(p)
  \/ \E p \in Callers : listTasksReturn(p)

Spec == Init /\ [][Next]_vars

(* ------------------- request validation (zod schemas) ------------------ *)
\* JSON values as JSON.parse gives them
JString(chars) == [type |-> "string", chars |-> chars]
JBoolean(b) == [type |-> "boolean", bool |-> b]
JNumber(n) == [type |-> "number", num |-> n]

Repeat(c, n) == [i \in 1..n |-> c]

TitleMax == 100
DetailMax == 1000

Digits == {"0", "1", "2", "3", "4", "5", "6", "7", "8", "9"}
DigitValue ==
  "0" :> 0 @@ "1" :> 1 @@ "2" :> 2 @@ "3" :> 3 @@ "4" :> 4 @@
  "5" :> 5 @@ "6" :> 6 @@ "7" :> 7 @@ "8" :> 8 @@ "9" :> 9

\* the number written by the two digits of s at i and i + 1
Num2(s, i) == 10 * DigitValue[s[i]] + DigitValue[s[i + 1]]

DaysInMonth(year, month) ==
  IF month \in {4, 6, 9, 11} THEN 30
  ELSE IF month # 2 THEN 31
  ELSE IF year % 4 = 0 /\ (year % 100 # 0 \/ year % 400 = 0) THEN 29
  ELSE 28

\* z.iso.datetime(): YYYY-MM-DDTHH:MM, optional :SS with optional fraction,
\* then Z; no offset, calendar-valid date
IsIsoDatetime(s) ==
  /\ Len(s) >= 17
  /\ s[Len(s)] = "Z"
  /\ \A i \in {1, 2, 3, 4, 6, 7, 9, 10, 12, 13, 15, 16} : s[i] \in Digits
  /\ s[5] = "-" /\ s[8] = "-" /\ s[11] = "T" /\ s[14] = ":"
  /\ Num2(s, 6) \in 1..12
  /\ Num2(s, 9) \in 1..DaysInMonth(100 * Num2(s, 1) + Num2(s, 3), Num2(s, 6))
  /\ Num2(s, 12) <= 23
  /\ Num2(s, 15) <= 59
  /\ \/ Len(s) = 17
     \/ /\ Len(s) >= 20
        /\ s[17] = ":" /\ s[18] \in Digits /\ s[19] \in Digits
        /\ Num2(s, 18) <= 59
        /\ \/ Len(s) = 20
           \/ /\ Len(s) >= 22
              /\ s[20] = "."
              /\ \A i \in 21..(Len(s) - 1) : s[i] \in Digits

\* the issue codes each field schema raises for a value
\* a title schema without its minimum length
titleSchemaNoMin(v) ==
  IF v.type # "string" THEN {"invalid_type"}
  ELSE IF Len(v.chars) > TitleMax THEN {"too_big"} ELSE {}

titleSchema(v) ==
  IF v.type # "string" THEN {"invalid_type"}
  ELSE (IF Len(v.chars) < 1 THEN {"too_small"} ELSE {})
       \cup (IF Len(v.chars) > TitleMax THEN {"too_big"} ELSE {})

detailSchema(v) ==
  IF v.type # "string" THEN {"invalid_type"}
  ELSE IF Len(v.chars) > DetailMax THEN {"too_big"} ELSE {}

dueAtSchema(v) ==
  IF v.type # "string" THEN {"invalid_type"}
  ELSE IF ~IsIsoDatetime(v.chars) THEN {"invalid_format"} ELSE {}

isCompleteSchema(v) == IF v.type # "boolean" THEN {"invalid_type"} ELSE {}

\* the issues of an object's member: those its schema raises at path f,
\* the one of a required member that is missing, and the one of a strict
\* object's unknown members
At(f, codes) == {<<f, c>> : c \in codes}

Missing(f) == {<<f, "invalid_type">>}

Unrecognized(b, keys) ==
  IF DOMAIN b \subseteq keys THEN {} ELSE {<<"", "unrecognized_keys">>}

SafeParse(issues, data) ==
  IF issues = {} THEN [success |-> TRUE, data |-> data]
  ELSE [success |-> FALSE, issues |-> issues]

DtoKeys == {"title", "detail", "dueAt", "isComplete"}

\* CreateTaskDtoSchema.safeParse(b)
CreateTaskDtoSchema(b) ==
  SafeParse(
    (IF "title" \in DOMAIN b THEN At("title", titleSchema(b.title))
       ELSE Missing("title"))
      \cup (IF "detail" \in DOMAIN b THEN At("detail", detailSchema(b.detail))
             ELSE {})
      \cup (IF "dueAt" \in DOMAIN b THEN At("dueAt", dueAtSchema(b.dueAt))
             ELSE {})
      \cup (IF "isComplete" \in DOMAIN b
             THEN At("isComplete", isCompleteSchema(b.isComplete))
             ELSE {})
      \cup Unrecognized(b, DtoKeys),
    IF "isComplete" \in DOMAIN b THEN b
    ELSE [f \in DOMAIN b \cup {"isComplete"} |->
            IF f = "isComplete" THEN JBoolean(FALSE) ELSE b[f]])

\* an update schema whose isComplete may be left out
UpdateTaskDtoSchemaOptionalFlag(b) ==
  SafeParse(
    (IF "title" \in DOMAIN b THEN At("title", titleSchema(b.title))
       ELSE Missing("title"))
      \cup (IF "detail" \in DOMAIN b THEN At("detail", detailSchema(b.detail))
             ELSE {})
      \cup (IF "dueAt" \in DOMAIN b THEN At("dueAt", dueAtSchema(b.dueAt))
             ELSE {})
      \cup (IF "isComplete" \in DOMAIN b
             THEN At("isComplete", isCompleteSchema(b.isComplete))
             ELSE {})
      \cup Unrecognized(b, DtoKeys),
    b)

\* UpdateTaskDtoSchema.safeParse(b)
UpdateTaskDtoSchema(b) ==
  SafeParse(
    (IF "title" \in DOMAIN b THEN At("title", titleSchema(b.title))
       ELSE Missing("title"))
      \cup (IF "detail" \in DOMAIN b THEN At("detail", detailSchema(b.detail))
             ELSE {})
      \cup (IF "dueAt" \in DOMAIN b THEN At("dueAt", dueAtSchema(b.dueAt))
             ELSE {})
      \cup (IF "isComplete" \in DOMAIN b
             THEN At("isComplete", isCompleteSchema(b.isComplete))
             ELSE Missing("isComplete"))
      \cup Unrecognized(b, DtoKeys),
    b)

\* the request bodies tried: each member absent or one of the values
TitleValues ==
  {JString(<< >>), JString(<<"T", "a", "s", "k">>), JString(Repeat("a", TitleMax)),
   JString(Repeat("a", TitleMax + 1)), JNumber(123)}

DetailValues ==
  {JString(<< >>), JString(Repeat("a", DetailMax)),
   JString(Repeat("a", DetailMax + 1))}

DueAtValues ==
  {JString(<<"2", "0", "2", "5", "-", "1", "2", "-", "3", "1", "T", "2", "3", ":", "5", "9", ":", "5", "9", ".", "0", "0", "0", "Z">>),
   JString(<<"2", "0", "2", "5", "-", "1", "2", "-", "3", "1">>),
   JString(<<"i", "n", "v", "a", "l", "i", "d", "-", "d", "a", "t", "e">>),
   JString(<<"2", "0", "2", "5", "-", "0", "2", "-", "3", "0", "T", "1", "0", ":", "0", "0", ":", "0", "0", "Z">>)}

IsCompleteValues == {JBoolean(TRUE), JBoolean(FALSE), JString(<<"t", "r", "u", "e">>)}

ExtraFieldValues == {JString(<<"x">>)}

Bodies ==
  { RecordOf(t \cup d \cup u \cup c \cup x) :
      t \in OptionalField("title", TitleValues),
      d \in OptionalField("detail", DetailValues),
      u \in OptionalField("dueAt", DueAtValues),
      c \in OptionalField("isComplete", IsCompleteValues),
      x \in OptionalField("extraField", ExtraFieldValues) }

\* a request body arrives at a handler
SchemaInit ==
  /\ StoreInit
  /\ body \in Bodies /\ parsed = NotParsed
  /\ event = NoEvent /\ result = NoResult

\* the create handler validates the body
parseCreateTaskDto ==
  /\ parsed = NotParsed
  /\ parsed' = [schema |-> "CreateTaskDtoSchema", result |-> CreateTaskDtoSchema(body)]
  /\ UNCHANGED <<table, clock, issued, pc, command, response, outcome, mutated,
                 ncalls, nrequests, body, event, result>>

\* the update handler validates the body
parseUpdateTaskDto ==
  /\ parsed = NotParsed
  /\ parsed' = [schema |-> "UpdateTaskDtoSchema", result |-> UpdateTaskDtoSchema(body)]
  /\ UNCHANGED <<table, clock, issued, pc, command, response, outcome, mutated,
                 ncalls, nrequests, body, event, result>>

SchemaNext == parseCreateTaskDto \/ parseUpdateTaskDto

SchemaSpec == SchemaInit /\ [][SchemaNext]_vars

(* ------------------------------ handlers ------------------------------- *)
\* utils/apigateway-response: the API Gateway results the handlers return
ok(b) == [statusCode |-> 200, body |-> b]
noContent == [statusCode |-> 204]
notFound == [statusCode |-> 404]
internalServerError == [statusCode |-> 500]

\* What each handler answers once its service call has ended with outcome
\* out: the catch block answers a throw, the test of the returned value
\* answers not-found.
getTaskHandlerResponse(out) ==
  IF out.kind = "throw" THEN internalServerError
  ELSE IF out.kind = "null" THEN notFound
  ELSE ok(out.value)

updateTaskHandlerResponse(out) ==
  IF out.kind = "throw" THEN internalServerError
  ELSE IF out.kind = "null" THEN notFound
  ELSE ok(out.value)

\* the delete handler without its test of the returned flag
deleteTaskHandlerResponseUntested(out) ==
  IF out.kind = "throw" THEN internalServerError ELSE noContent

deleteTaskHandlerResponse(out) ==
  IF out.kind = "throw" THEN internalServerError
  ELSE IF ~out.value THEN notFound
  ELSE noContent

(* ------------------- create and update handlers ------------------------ *)
\* @leanstacks/lambda-utils: the other API Gateway results
created(b) == [statusCode |-> 201, body |-> b]
badRequest == [statusCode |-> 400]

\* event.body: a text that is not JSON, or the JSON text of the value b
NotJson == [json |-> FALSE]
JsonText(b) == [json |-> TRUE, value |-> b]

\* the JavaScript string of a sequence of characters
RECURSIVE Str(_)
Str(chars) ==
  IF Len(chars) = 0 THEN ""
  ELSE IF Len(chars) = 1 THEN chars[1]
  ELSE LET h == Len(chars) \div 2
       IN  Str(SubSeq(chars, 1, h)) \o Str(SubSeq(chars, h + 1, Len(chars)))

\* the validated DTO as the service reads it
DtoOf(data) ==
  [f \in DOMAIN data |->
     IF data[f].type = "boolean" THEN data[f].bool ELSE Str(data[f].chars)]

\* the requests tried: the create route has no path parameter, the update
\* route may come without taskId; the body may be missing
CreateEvents ==
  {[handler |-> "create"]}
  \cup {[handler |-> "create", body |-> b] :
          b \in {NotJson} \cup {JsonText(v) : v \in Bodies}}

UpdateEvents ==
  { RecordOf({<<"handler", "update">>} \cup i \cup b) :
      i \in OptionalField("taskId", {UnknownId, Uuid(1)}),
      b \in OptionalField("body", {NotJson} \cup {JsonText(v) : v \in Bodies}) }

\* The handler up to its service call: the response it returns at once, or
\* the arguments it calls the service with.
Reply(r) == [kind |-> "reply", result |-> r]
Call(args) == [kind |-> "call"] @@ args

createHandlerFront(ev) ==
  IF "body" \notin DOMAIN ev THEN Reply(badRequest)
  ELSE IF ~ev.body.json THEN Reply(badRequest)
  ELSE LET validated == CreateTaskDtoSchema(ev.body.value)
       IN  IF ~validated.success THEN Reply(badRequest)
           ELSE Call([dto |-> DtoOf(validated.data)])

\* an update handler that does not test taskId
updateHandlerFrontNoIdTest(ev) ==
  IF "body" \notin DOMAIN ev THEN Reply(badRequest)
  ELSE IF ~ev.body.json THEN Reply(badRequest)
  ELSE LET validated == UpdateTaskDtoSchema(ev.body.value)
       IN  IF ~validated.success THEN Reply(badRequest)
           ELSE Call([id |-> IF "taskId" \in DOMAIN ev THEN ev.taskId
                             ELSE "undefined",
                      dto |-> DtoOf(validated.data)])

updateHandlerFront(ev) ==
  IF "taskId" \notin DOMAIN ev THEN Reply(badRequest)
  ELSE IF "body" \notin DOMAIN ev THEN Reply(badRequest)
  ELSE IF ~ev.body.json THEN Reply(badRequest)
  ELSE LET validated == UpdateTaskDtoSchema(ev.body.value)
       IN  IF ~validated.success THEN Reply(badRequest)
           ELSE Call([id |-> ev.taskId, dto |-> DtoOf(validated.data)])

createTaskHandlerResponse(out) ==
  IF out.kind = "throw" THEN internalServerError ELSE created(out.value)

\* a request arrives; the table is empty or holds one task created before
HandlerInit ==
  /\ \/ table = << >> /\ issued = 0
     \/ /\ \E dto \in CreateTaskDtos :
             table = PutItem(<< >>, taskItem(dto, Uuid(1), 0))
        /\ issued = 1
  /\ clock = 0
  /\ pc = [p \in Callers |-> "idle"]
  /\ command = [p \in Callers |-> NoCommand]
  /\ response = [p \in Callers |-> NoResponse]
  /\ outcome = [p \in Callers |-> NoOutcome]
  /\ mutated = {}
  /\ ncalls = 0
  /\ nrequests = 0
  /\ body = NoBody /\ parsed = NotParsed
  /\ event \in CreateEvents \cup UpdateEvents
  /\ result = NoResult

\* the create handler runs up to its return or to the await of createTask
createHandlerStart ==
  /\ event.handler = "create" /\ result = NoResult /\ pc[1] = "idle"
  /\ LET front == createHandlerFront(event)
     IN  IF front.kind = "reply"
           THEN /\ result' = front.result
                /\ UNCHANGED <<table, clock, issued, pc, command, response,
                               outcome, mutated, ncalls, nrequests, body,
                               parsed, event>>
           ELSE /\ issued' = issued + 1
                /\ Send(1, [op |-> "Put", call |-> "createTask",
                            dto |-> front.dto, now |-> clock,
                            Item |-> taskItem(front.dto, Uuid(issued + 1), clock)])

\* the update handler runs up to its return or to the await of updateTask
updateHandlerStart ==
  /\ event.handler = "update" /\ result = NoResult /\ pc[1] = "idle"
  /\ LET front == updateHandlerFront(event)
     IN  IF front.kind = "reply"
           THEN /\ result' = front.result
                /\ UNCHANGED <<table, clock, issued, pc, command, response,
                               outcome, mutated, ncalls, nrequests, body,
                               parsed, event>>
           ELSE /\ Send(1, [op |-> "Update", call |-> "updateTask",
                            id |-> front.id, dto |-> front.dto, now |-> clock,
                            Key |-> TaskKeysPk(front.id),
                            set |-> setExpressions(front.dto, clock),
                            remove |-> removeExpressions(front.dto)])
                /\ UNCHANGED issued

\* the handler returns what its service call came to
createHandlerEnd ==
  /\ event.handler = "create" /\ result = NoResult /\ pc[1] = "done"
  /\ result' = createTaskHandlerResponse(outcome[1])
  /\ UNCHANGED <<table, clock, issued, pc, command, response, outcome, mutated,
                 ncalls, nrequests, body, parsed, event>>

updateHandlerEnd ==
  /\ event.handler = "update" /\ result = NoResult /\ pc[1] = "done"
  /\ result' = updateTaskHandlerResponse(outcome[1])
  /\ UNCHANGED <<table, clock, issued, pc, command, response, outcome, mutated,
                 ncalls, nrequests, body, parsed, event>>

HandlerNext ==
  \/ createHandlerStart
  \/ createTaskReturn(1)
  \/ createHandlerEnd
  \/ updateHandlerStart
  \/ updateTaskReturn(1)
  \/ updateHandlerEnd

HandlerSpec == HandlerInit /\ [][HandlerNext]_vars

(* ------------------------------ claims --------------------------------- *)
\* caller p's command is handled in this step
Handled(p, op) == pc[p] = "sent" /\ command[p].op = op /\ pc'[p] = "done"

\* ... and the table carried it out
Applied(p, op) == Handled(p, op) /\ response'[p].error = "none"

\* caller q holds the Task a finished createTask returned
Created(q) ==
  pc[q] = "done" /\ outcome[q].call = "createTask" /\ outcome[q].kind = "task"

\* C1: updateTask on an id with no record under its key leaves the table as
\* it was and, once the table has refused the write, returns null instead
\* of throwing.
C1_UpdateMissingIsNotFound ==
  [][\A p \in Callers :
       Handled(p, "Update") /\ command[p].Key \notin DOMAIN table
       => /\ table' = table
          /\ response'[p].error \in {"ConditionalCheckFailedException", "StoreError"}
          /\ response'[p].error = "ConditionalCheckFailedException"
             => outcome'[p].kind = "null"]_vars

C1_Witness ==
  \E p \in Callers :
    /\ pc[p] = "done" /\ outcome[p].call = "updateTask"
    /\ response[p].error = "ConditionalCheckFailedException"
    /\ outcome[p].kind = "null"

\* C2: deleteTask on an id with no record under its key leaves the table as
\* it was and, once the table has refused the delete, returns false instead
\* of throwing.
C2_DeleteMissingIsFalse ==
  [][\A p \in Callers :
       Handled(p, "Delete") /\ command[p].Key \notin DOMAIN table
       => /\ table' = table
          /\ response'[p].error \in {"ConditionalCheckFailedException", "StoreError"}
          /\ response'[p].error = "ConditionalCheckFailedException"
             => outcome'[p].kind = "bool" /\ outcome'[p].value = FALSE]_vars

C2_Witness ==
  \E p \in Callers :
    /\ pc[p] = "done" /\ outcome[p].call = "deleteTask"
    /\ response[p].error = "ConditionalCheckFailedException"
    /\ outcome[p].kind = "bool" /\ outcome[p].value = FALSE

\* C3: a getTask of the id of a Task that createTask returned, handled while
\* no update or delete of that id has taken effect, returns a Task equal to
\* the created one, field for field and with the same fields present.
C3_GetAfterCreate ==
  [][\A p, q \in Callers :
       /\ Created(q)
       /\ Handled(p, "Get") /\ command[p].id = outcome[q].value.id
       /\ command[p].Key \notin mutated
       /\ response'[p].error = "none"
       => /\ outcome'[p].kind = "task"
          /\ DOMAIN outcome'[p].value = DOMAIN outcome[q].value
          /\ outcome'[p].value = outcome[q].value]_vars

C3_Witness ==
  \E p, q \in Callers :
    /\ Created(q)
    /\ pc[p] = "done" /\ outcome[p].call = "getTask" /\ outcome[p].kind = "task"
    /\ outcome[p].value.id = outcome[q].value.id
    /\ TaskKeysPk(outcome[p].value.id) \notin mutated
    /\ "detail" \in DOMAIN outcome[p].value
    /\ "dueAt" \notin DOMAIN outcome[p].value

\* C4: after a successful updateTask the stored record has the title and
\* the isComplete of the input, and the detail and the dueAt the input
\* supplies, the empty detail included.
C4_UpdateStoresInput ==
  [][\A p \in Callers :
       Applied(p, "Update")
       => LET item == table'[command[p].Key]
              dto == command[p].dto
          IN  /\ item.title = dto.title
              /\ item.isComplete = dto.isComplete
              /\ \A f \in {"detail", "dueAt"} \cap DOMAIN dto :
                   f \in DOMAIN item /\ item[f] = dto[f]]_vars

C4_Witness ==
  \E p \in Callers :
    /\ pc[p] = "done" /\ outcome[p].call = "updateTask" /\ outcome[p].kind = "task"
    /\ TaskKeysPk(outcome[p].value.id) \in DOMAIN table
    /\ LET item == table[TaskKeysPk(outcome[p].value.id)]
       IN  /\ item.title = "b" /\ item.isComplete
           /\ "detail" \in DOMAIN item /\ item.detail = ""
           /\ "dueAt" \in DOMAIN item

\* C5: after a successful updateTask, a detail or dueAt the input omits is
\* absent from the stored record and from the Task the call returns, and a
\* getTask returns exactly the fields of the stored record other than pk.
C5_UpdateRemovesOmitted ==
  [][\A p \in Callers :
       /\ Applied(p, "Update")
          => \A f \in {"detail", "dueAt"} \ DOMAIN command[p].dto :
               /\ f \notin DOMAIN table'[command[p].Key]
               /\ f \notin DOMAIN outcome'[p].value
       /\ Applied(p, "Get") /\ command[p].Key \in DOMAIN table
          => DOMAIN outcome'[p].value = (DOMAIN table[command[p].Key]) \ {"pk"}]_vars

C5_Witness ==
  \E p, q \in Callers :
    /\ Created(q) /\ "detail" \in DOMAIN outcome[q].value
    /\ "dueAt" \in DOMAIN outcome[q].value
    /\ pc[p] = "done" /\ outcome[p].call = "updateTask" /\ outcome[p].kind = "task"
    /\ outcome[p].value.id = outcome[q].value.id
    /\ TaskKeysPk(outcome[p].value.id) \in DOMAIN table
    /\ {"detail", "dueAt"} \cap DOMAIN table[TaskKeysPk(outcome[p].value.id)] = {}

\* C6: a successful updateTask changes nothing of the stored record but
\* title, isComplete, detail, dueAt and updatedAt: id, createdAt and pk keep
\* their values, and no other record changes.
C6_UpdateFrame ==
  [][\A p \in Callers :
       Applied(p, "Update")
       => LET old == table[command[p].Key]
              new == table'[command[p].Key]
              free == {"title", "isComplete", "detail", "dueAt", "updatedAt"}
          IN  /\ DOMAIN table' = DOMAIN table
              /\ (DOMAIN new) \ free = (DOMAIN old) \ free
              /\ \A f \in (DOMAIN old) \ free : new[f] = old[f]
              /\ new.id = old.id /\ new.createdAt = old.createdAt /\ new.pk = old.pk
              /\ \A k \in (DOMAIN table) \ {command[p].Key} : table'[k] = table[k]]_vars

C6_Witness ==
  \E p \in Callers :
    /\ pc[p] = "done" /\ outcome[p].call = "updateTask" /\ outcome[p].kind = "task"
    /\ outcome[p].value.updatedAt > outcome[p].value.createdAt
    /\ TaskKeysPk(outcome[p].value.id) \in DOMAIN table
    /\ table[TaskKeysPk(outcome[p].value.id)].createdAt = outcome[p].value.createdAt

\* C7: while a record stays in the table its createdAt keeps the value it
\* was created with, whatever calls run in between; a create writes under
\* a key no record has.
C7_CreatedAtNeverChanges ==
  [][/\ \A k \in (DOMAIN table) \cap (DOMAIN table') :
          table'[k].createdAt = table[k].createdAt
     /\ \A p \in Callers :
          Applied(p, "Put")
          => /\ command[p].Item.pk \notin DOMAIN table
             /\ table'[command[p].Item.pk].createdAt = command[p].now]_vars

C7_Witness ==
  \E k \in DOMAIN table :
    /\ k \in mutated
    /\ table[k].updatedAt > table[k].createdAt
    /\ Cardinality(DOMAIN table) = 2

\* C8 as stated: every write that takes effect leaves an updatedAt not
\* earlier than the one stored before, under every interleaving.
C8_UpdatedAtMonotonic ==
  [][\A k \in (DOMAIN table) \cap (DOMAIN table') :
       table'[k].updatedAt >= table[k].updatedAt]_vars

\* the key a create or an update writes
WrittenKey(cmd) == IF cmd.op = "Put" THEN cmd.Item.pk ELSE cmd.Key

\* C8 amended: a create or update that takes effect stores as updatedAt the
\* instant its call read before sending, and that instant is not earlier
\* than any updatedAt stored when the call read it.
C8_UpdatedAtIsCallInstant ==
  [][\A p \in Callers :
       /\ pc[p] # "sent" /\ pc'[p] = "sent" /\ command'[p].op \in {"Put", "Update"}
          => \A k \in DOMAIN table : command'[p].now >= table[k].updatedAt
       /\ Applied(p, "Put") \/ Applied(p, "Update")
          => table'[WrittenKey(command[p])].updatedAt = command[p].now]_vars

C8_Witness ==
  \E p \in Callers :
    /\ pc[p] = "done" /\ outcome[p].call = "updateTask" /\ outcome[p].kind = "task"
    /\ TaskKeysPk(outcome[p].value.id) \in DOMAIN table
    /\ table[TaskKeysPk(outcome[p].value.id)].updatedAt < outcome[p].value.updatedAt

\* C9 as stated: an updateTask of a task createTask returned, the first
\* mutation of it, leaves an updatedAt strictly later than the created one.
C9_UpdatedAtStrictlyLater ==
  [][\A p, q \in Callers :
       /\ Created(q)
       /\ Applied(p, "Update") /\ command[p].id = outcome[q].value.id
       /\ command[p].Key \notin mutated
       => /\ table'[command[p].Key].updatedAt > outcome[q].value.updatedAt
          /\ outcome'[p].value.updatedAt > outcome[q].value.updatedAt]_vars

\* C9 amended: that updatedAt is the instant updateTask read, which is not
\* earlier than the created one, and strictly later exactly when the clock
\* advanced between the two readings.
C9_UpdatedAtNotEarlier ==
  [][\A p, q \in Callers :
       /\ Created(q)
       /\ Applied(p, "Update") /\ command[p].id = outcome[q].value.id
       /\ command[p].Key \notin mutated
       => /\ table'[command[p].Key].updatedAt = command[p].now
          /\ outcome'[p].value.updatedAt = command[p].now
          /\ command[p].now >= outcome[q].value.updatedAt]_vars

C9_Witness ==
  \E p, q \in Callers :
    /\ Created(q)
    /\ pc[p] = "done" /\ outcome[p].call = "updateTask" /\ outcome[p].kind = "task"
    /\ outcome[p].value.id = outcome[q].value.id
    /\ outcome[p].value.updatedAt = outcome[q].value.updatedAt
    /\ outcome[p].value.title # outcome[q].value.title

\* C10: createTask with a title and nothing else returns a Task with an id
\* no stored record has, isComplete false, createdAt and updatedAt both the
\* instant the call read, and no detail and no dueAt; the record it writes
\* is that Task under the key of its id.
C10_CreateTitleOnly ==
  [][\A p \in Callers :
       Applied(p, "Put") /\ DOMAIN command[p].dto = {"title"}
       => LET t == outcome'[p].value
          IN  /\ outcome'[p].kind = "task"
              /\ DOMAIN t = {"id", "title", "isComplete", "createdAt", "updatedAt"}
              /\ t.title = command[p].dto.title
              /\ t.isComplete = FALSE
              /\ t.createdAt = command[p].now /\ t.updatedAt = t.createdAt
              /\ TaskKeysPk(t.id) \notin DOMAIN table
              /\ \A k \in DOMAIN table : table[k].id # t.id
              /\ TaskKeysPk(t.id) \in DOMAIN table'
              /\ DOMAIN table'[TaskKeysPk(t.id)] = (DOMAIN t) \cup {"pk"}
              /\ toTask(table'[TaskKeysPk(t.id)]) = t
              /\ table'[TaskKeysPk(t.id)].pk = TaskKeysPk(t.id)]_vars

C10_Witness ==
  \E p \in Callers :
    /\ pc[p] = "done" /\ outcome[p].call = "createTask" /\ outcome[p].kind = "task"
    /\ DOMAIN outcome[p].value = {"id", "title", "isComplete", "createdAt", "updatedAt"}
    /\ outcome[p].value.title = "a" /\ ~outcome[p].value.isComplete
    /\ outcome[p].value.id = Uuid(2)
    /\ TaskKeysPk(Uuid(2)) \in DOMAIN table
    /\ toTask(table[TaskKeysPk(Uuid(2))]) = outcome[p].value

(* C11: getTask returns the decoded Task when a record is stored under the
   key derived from the id, and the not-found value when none is; the
   absence of the record never makes the call throw, and a read changes
   nothing in the table. *)
C11_GetTaskFoundOrNull ==
  [][\A p \in Callers :
       Handled(p, "Get") =>
         /\ table' = table
         /\ command[p].Key = TaskKeysPk(command[p].id)
         /\ outcome'[p].call = "getTask"
         /\ response'[p].error \in {"none", "StoreError"}
         /\ Applied(p, "Get") =>
              IF command[p].Key \in DOMAIN table
                THEN /\ outcome'[p].kind = "task"
                     /\ outcome'[p].value = toTask(table[command[p].Key])
                     /\ outcome'[p].value.id = command[p].id
                ELSE outcome'[p] = [call |-> "getTask", kind |-> "null", value |-> "null"]
         /\ outcome'[p].kind = "throw" => response'[p].error = "StoreError"]_vars

\* a getTask of an id with no record has returned the not-found value, and
\* another one has returned the stored Task
C11_Witness ==
  \E p, q \in Callers :
    /\ pc[p] = "done" /\ outcome[p].call = "getTask" /\ outcome[p].kind = "null"
    /\ response[p] = [error |-> "none"]
    /\ pc[q] = "done" /\ outcome[q].call = "getTask" /\ outcome[q].kind = "task"
    /\ TaskKeysPk(outcome[q].value.id) \in DOMAIN table
    /\ outcome[q].value = toTask(table[TaskKeysPk(outcome[q].value.id)])

(* C12: listTasks on an empty table, or on a scan response without Items,
   returns the empty sequence and not an error; a successful listTasks
   returns exactly one Task per stored record, the decoded record, each id
   once.  The stored records are those of the successful createTask calls
   as long as nothing is deleted: every successful createTask adds exactly
   one record under a new key, and no step other than a successful
   deleteTask removes one. *)
C12_ListTasksAll ==
  [][/\ \A p \in Callers :
          Applied(p, "Scan") =>
            /\ table' = table
            /\ outcome'[p].call = "listTasks" /\ outcome'[p].kind = "list"
            /\ Len(outcome'[p].value) = Cardinality(DOMAIN table)
            /\ {TaskKeysPk(outcome'[p].value[i].id) : i \in DOMAIN outcome'[p].value}
                 = DOMAIN table
            /\ \A i \in DOMAIN outcome'[p].value :
                 outcome'[p].value[i]
                   = toTask(table[TaskKeysPk(outcome'[p].value[i].id)])
            /\ (DOMAIN table = {} \/ "Items" \notin DOMAIN response'[p])
                 => outcome'[p].value = << >>
     /\ \A p \in Callers :
          Applied(p, "Put") =>
            /\ command[p].Item.pk \notin DOMAIN table
            /\ DOMAIN table' = DOMAIN table \cup {command[p].Item.pk}
     /\ (\A p \in Callers : ~Applied(p, "Delete"))
          => DOMAIN table \subseteq DOMAIN table'
     /\ (\A p \in Callers : ~Applied(p, "Put"))
          => DOMAIN table' \subseteq DOMAIN table]_vars

\* two createTask calls have succeeded, nothing was deleted, and listTasks
\* has returned the two Tasks
C12_Witness ==
  \E p \in Callers :
    /\ pc[p] = "done" /\ outcome[p].call = "listTasks" /\ outcome[p].kind = "list"
    /\ Len(outcome[p].value) = 2
    /\ {outcome[p].value[i].id : i \in 1..2} = {Uuid(1), Uuid(2)}
    /\ DOMAIN table = {TaskKeysPk(Uuid(1)), TaskKeysPk(Uuid(2))}
    /\ mutated = {}

(* C13: when deleteTask returns true the record of that id is no longer
   stored; a record that is not stored stays so in every step but a
   createTask writing that key; and while it is not stored a getTask of the
   id that gets its answer returns not-found and a listTasks does not
   contain the id. *)
C13_DeletedStaysGone ==
  [][/\ \A p \in Callers :
          (Handled(p, "Delete") /\ outcome'[p].kind = "bool" /\ outcome'[p].value)
            => /\ command[p].Key = TaskKeysPk(command[p].id)
               /\ command[p].Key \in DOMAIN table
               /\ command[p].Key \notin DOMAIN table'
     /\ \A k \in (DOMAIN table') \ (DOMAIN table) :
          \E p \in Callers : Applied(p, "Put") /\ command[p].Item.pk = k
     /\ \A p \in Callers :
          (Handled(p, "Get") /\ command[p].Key \notin DOMAIN table)
            => /\ outcome'[p].kind # "task"
               /\ Applied(p, "Get") => outcome'[p].kind = "null"
     /\ \A p \in Callers :
          (Handled(p, "Scan") /\ outcome'[p].kind = "list")
            => \A i \in DOMAIN outcome'[p].value :
                 TaskKeysPk(outcome'[p].value[i].id) \in DOMAIN table]_vars

\* deleteTask has returned true for the created id, its record is gone, and
\* a getTask of that id is waiting for its answer
C13_Witness ==
  \E p, q \in Callers :
    /\ pc[p] = "done" /\ outcome[p] = [call |-> "deleteTask", kind |-> "bool", value |-> TRUE]
    /\ mutated = {TaskKeysPk(Uuid(1))}
    /\ TaskKeysPk(Uuid(1)) \notin DOMAIN table
    /\ pc[q] = "sent" /\ command[q].op = "Get" /\ command[q].id = Uuid(1)

(* C14: a store request that fails with anything but the existence-condition
   failure of updateTask and deleteTask makes the operation fail with that
   same error: the call throws it unchanged, and returns no not-found, no
   list and no success. *)
C14_StoreErrorPropagates ==
  [][\A p \in Callers :
       \A op \in {"Put", "Get", "Update", "Delete", "Scan"} :
         (/\ Handled(p, op)
          /\ response'[p].error # "none"
          /\ ~(op \in {"Update", "Delete"}
                /\ response'[p].error = "ConditionalCheckFailedException"))
           => outcome'[p] = [call |-> command[p].call, kind |-> "throw",
                             error |-> response'[p].error]]_vars

\* an updateTask and a listTasks have both thrown the failure of their
\* store request
C14_Witness ==
  \E p, q \in Callers :
    /\ pc[p] = "done" /\ response[p] = [error |-> "StoreError"]
    /\ outcome[p] = [call |-> "updateTask", kind |-> "throw", error |-> "StoreError"]
    /\ pc[q] = "done" /\ response[q] = [error |-> "StoreError"]
    /\ outcome[q] = [call |-> "listTasks", kind |-> "throw", error |-> "StoreError"]

(* C15: for every valid Task t, converting t to a stored record (adding
   the derived key, omitting unset detail and dueAt) and converting that
   record back yields a Task equal to t.  The Tasks taken are those of the
   stored records. *)
C15_RoundTrip ==
  \A k \in DOMAIN table :
    LET t == toTask(table[k])
    IN  toTask(toRecord(t)) = t

(* C16: no Task returned by listTasks, getTask, createTask or updateTask
   carries the partition-key attribute pk of the table. *)
C16_NoPkReturned ==
  \A p \in Callers :
    /\ outcome[p].kind = "task" => "pk" \notin DOMAIN outcome[p].value
    /\ outcome[p].kind = "list"
         => \A i \in DOMAIN outcome[p].value : "pk" \notin DOMAIN outcome[p].value[i]

\* updateTask has returned a Task and listTasks a list holding one, while
\* the record stored for them carries pk
C16_Witness ==
  \E p, q \in Callers :
    /\ pc[p] = "done" /\ outcome[p].call = "updateTask" /\ outcome[p].kind = "task"
    /\ pc[q] = "done" /\ outcome[q].call = "listTasks" /\ outcome[q].kind = "list"
    /\ Len(outcome[q].value) = 1
    /\ outcome[q].value[1] = outcome[p].value
    /\ TaskKeysPk(outcome[p].value.id) \in DOMAIN table
    /\ table[TaskKeysPk(outcome[p].value.id)].pk = TaskKeysPk(outcome[p].value.id)

(* C17: a successful updateTask returns the full Task as it is after the
   update: the decoded record stored under the id right after this call's
   own write, whatever other updates of the same id are under way. *)
C17_UpdateReturnsStored ==
  [][\A p \in Callers :
       Applied(p, "Update") =>
         /\ outcome'[p].call = "updateTask" /\ outcome'[p].kind = "task"
         /\ command[p].Key \in DOMAIN table'
         /\ outcome'[p].value = toTask(table'[command[p].Key])
         /\ {"id", "title", "isComplete", "createdAt", "updatedAt"}
              \subseteq DOMAIN outcome'[p].value
         /\ outcome'[p].value.id = command[p].id
         /\ outcome'[p].value.title = command[p].dto.title
         /\ outcome'[p].value.updatedAt = command[p].now]_vars

\* two overlapping updateTask calls of one id have each returned the Task
\* of their own write: the one that read the clock first was applied last
C17_Witness ==
  \E p, q \in Callers :
    /\ pc[p] = "done" /\ outcome[p].call = "updateTask" /\ outcome[p].kind = "task"
    /\ pc[q] = "done" /\ outcome[q].call = "updateTask" /\ outcome[q].kind = "task"
    /\ outcome[p].value.id = outcome[q].value.id
    /\ outcome[p].value.updatedAt = 1 /\ outcome[q].value.updatedAt = 0
    /\ outcome[p].value.title # outcome[q].value.title
    /\ ncalls = 3
    /\ toTask(table[TaskKeysPk(outcome[q].value.id)]) = outcome[q].value

\* the conditions on the optional members detail and dueAt and on the set
\* of members that both input schemas share
OptionalMembersValid(b) ==
  /\ "detail" \in DOMAIN b
       => b.detail.type = "string" /\ Len(b.detail.chars) <= 1000
  /\ "dueAt" \in DOMAIN b
       => b.dueAt.type = "string" /\ IsIsoDatetime(b.dueAt.chars)
  /\ DOMAIN b \subseteq {"title", "detail", "dueAt", "isComplete"}

TitleValid(b) ==
  /\ "title" \in DOMAIN b
  /\ b.title.type = "string"
  /\ Len(b.title.chars) >= 1 /\ Len(b.title.chars) <= 100

(* C18: the create-input schema accepts a body exactly when title is a
   string of 1 to 100 characters, detail (if present) has at most 1000
   characters, dueAt (if present) is an ISO-8601 timestamp, isComplete (if
   present) is a boolean and no other member is present; the accepted data
   are the members of the body, with isComplete false when it was missing. *)
C18_CreateSchemaAccepts ==
  parsed.schema = "CreateTaskDtoSchema" =>
    /\ parsed.result.success
         = (/\ TitleValid(body)
            /\ OptionalMembersValid(body)
            /\ "isComplete" \in DOMAIN body => body.isComplete.type = "boolean")
    /\ parsed.result.success =>
         /\ DOMAIN parsed.result.data = DOMAIN body \cup {"isComplete"}
         /\ \A f \in DOMAIN body : parsed.result.data[f] = body[f]
         /\ "isComplete" \notin DOMAIN body
              => parsed.result.data.isComplete = JBoolean(FALSE)

\* a body of a 100-character title and a 1000-character detail without
\* isComplete has been accepted, with isComplete false
C18_Witness ==
  /\ parsed.schema = "CreateTaskDtoSchema" /\ parsed.result.success
  /\ DOMAIN body = {"title", "detail"}
  /\ Len(body.title.chars) = 100 /\ Len(body.detail.chars) = 1000
  /\ parsed.result.data.isComplete = JBoolean(FALSE)

(* C19: the update-input schema accepts a body exactly when title is a
   string of 1 to 100 characters, isComplete is present and a boolean,
   detail (if present) has at most 1000 characters, dueAt (if present) is an
   ISO-8601 timestamp and no other member is present; a body without title
   or without isComplete is rejected; the accepted data are the body. *)
C19_UpdateSchemaAccepts ==
  parsed.schema = "UpdateTaskDtoSchema" =>
    /\ parsed.result.success
         = (/\ TitleValid(body)
            /\ OptionalMembersValid(body)
            /\ "isComplete" \in DOMAIN body
            /\ body.isComplete.type = "boolean")
    /\ ("title" \notin DOMAIN body \/ "isComplete" \notin DOMAIN body)
         => ~parsed.result.success
    /\ parsed.result.success => parsed.result.data = body

\* a body that is valid but for its missing isComplete has been rejected
C19_Witness ==
  /\ parsed.schema = "UpdateTaskDtoSchema" /\ ~parsed.result.success
  /\ DOMAIN body = {"title", "detail", "dueAt"}
  /\ TitleValid(body) /\ OptionalMembersValid(body)
  /\ parsed.result.issues = {<<"isComplete", "invalid_type">>}

(* C20: when the service returns its not-found result (null from getTask
   and updateTask, false from deleteTask) the get, update and delete
   handlers respond with 404, never with 200, 204 or 500. *)
C20_NotFoundIs404 ==
  \A p \in Callers :
    pc[p] = "done" =>
      /\ (outcome[p].call = "getTask" /\ outcome[p].kind = "null")
           => getTaskHandlerResponse(outcome[p]).statusCode = 404
      /\ (outcome[p].call = "updateTask" /\ outcome[p].kind = "null")
           => updateTaskHandlerResponse(outcome[p]).statusCode = 404
      /\ (outcome[p].call = "deleteTask" /\ outcome[p].kind = "bool"
             /\ ~outcome[p].value)
           => deleteTaskHandlerResponse(outcome[p]).statusCode = 404

\* an updateTask has returned null and a deleteTask false, both after the
\* table rejected their existence condition
C20_Witness ==
  \E p, q \in Callers :
    /\ pc[p] = "done" /\ outcome[p].call = "updateTask" /\ outcome[p].kind = "null"
    /\ response[p].error = "ConditionalCheckFailedException"
    /\ pc[q] = "done" /\ outcome[q].call = "deleteTask"
    /\ outcome[q].kind = "bool" /\ ~outcome[q].value
    /\ response[q].error = "ConditionalCheckFailedException"

\* the requests the create and the update handler are to reject: no body,
\* a body that is not JSON, a body its schema does not accept and, for
\* update, no task id
RequestInvalid(ev) ==
  \/ "body" \notin DOMAIN ev
  \/ ~ev.body.json
  \/ ev.handler = "create" /\ ~CreateTaskDtoSchema(ev.body.value).success
  \/ ev.handler = "update"
       /\ ("taskId" \notin DOMAIN ev \/ ~UpdateTaskDtoSchema(ev.body.value).success)

(* C21: validation happens before the service is invoked: a create or
   update handler that gets a request to reject (missing body, invalid
   JSON, a schema violation, for update a missing task id) responds 400
   without calling a Task Store operation, so that the table is unchanged;
   a 400 is returned only so, and a store request is sent only for a
   request that passed validation. *)
C21_RejectedBeforeStore ==
  [][/\ (result = NoResult /\ pc[1] = "idle" /\ RequestInvalid(event))
          => /\ result'.statusCode = 400
             /\ UNCHANGED <<table, pc, command, response, ncalls, issued, mutated>>
     /\ (result = NoResult /\ result'.statusCode = 400)
          => /\ RequestInvalid(event)
             /\ ncalls = 0 /\ pc[1] = "idle"
             /\ UNCHANGED <<table, pc, command, response, ncalls, issued, mutated>>
     /\ ncalls' # ncalls => ~RequestInvalid(event)]_vars

\* the update handler has answered 400 to a body its schema rejects, with
\* no service call made and the stored task as it was
C21_Witness ==
  /\ event.handler = "update" /\ result.statusCode = 400
  /\ "taskId" \in DOMAIN event /\ event.taskId = Uuid(1)
  /\ "body" \in DOMAIN event /\ event.body.json
  /\ ~UpdateTaskDtoSchema(event.body.value).success
  /\ ncalls = 0 /\ pc[1] = "idle" /\ command[1] = NoCommand
  /\ TaskKeysPk(Uuid(1)) \in DOMAIN table

(* C22: among concurrent deleteTask calls of one id whose record is
   present, with no create of that id in between, exactly one returns true
   and every other one false.  Each call that gets the table's answer is
   decided by the existence check of its own request: it returns true when
   the record is there as the request is applied, and the record is gone
   from then on, and false when it is not; so two calls that both returned
   true have deleted records of different ids. *)
C22_OneDeleteWins ==
  [][/\ \A p \in Callers :
          (Handled(p, "Delete") /\ response'[p].error # "StoreError")
            => /\ outcome'[p]
                    = [call |-> "deleteTask", kind |-> "bool",
                       value |-> (command[p].Key \in DOMAIN table)]
               /\ command[p].Key \notin DOMAIN table'
               /\ \A k \in DOMAIN table : k # command[p].Key => k \in DOMAIN table'
     /\ \A p, q \in Callers :
          (/\ p # q
           /\ outcome'[p] = [call |-> "deleteTask", kind |-> "bool", value |-> TRUE]
           /\ outcome'[q] = [call |-> "deleteTask", kind |-> "bool", value |-> TRUE])
            => issued' >= 2]_vars

\* of two deleteTask calls made after the one createTask, one has returned
\* true and the other false on the failed existence check
C22_Witness ==
  \E p, q \in Callers :
    /\ pc[p] = "done" /\ outcome[p] = [call |-> "deleteTask", kind |-> "bool", value |-> TRUE]
    /\ pc[q] = "done" /\ outcome[q] = [call |-> "deleteTask", kind |-> "bool", value |-> FALSE]
    /\ response[q].error = "ConditionalCheckFailedException"
    /\ issued = 1 /\ ncalls = 3
    /\ table = << >> /\ mutated = {TaskKeysPk(Uuid(1))}

\* the fields of a record that an update writes
MutableFields == {"title", "isComplete", "detail", "dueAt", "updatedAt"}

WrittenPart(item) == [f \in (DOMAIN item) \cap MutableFields |-> item[f]]

\* what an updateTask called with dto at instant now is to leave in them
WrittenBy(dto, now) ==
  [f \in (DOMAIN dto) \cup {"updatedAt"} |->
     IF f = "updatedAt" THEN now ELSE dto[f]]

(* C23: the record never mixes the fields of two updates.  Each updateTask
   that is applied leaves title, isComplete, detail, dueAt and updatedAt
   together exactly as its own input and instant give them, whatever another
   update left there before; so after two concurrent successful updateTask
   calls of one id, with no other mutation of it, the stored Task is the one
   a single call of the two returned. *)
C23_LastWriterWinsWhole ==
  [][/\ \A p \in Callers :
          Applied(p, "Update")
            => WrittenPart(table'[command[p].Key])
                 = WrittenBy(command[p].dto, command[p].now)
     /\ \A p, q \in Callers :
          (/\ p # q /\ ncalls' = 3 /\ issued' = 1
           /\ pc'[p] = "done" /\ pc'[q] = "done"
           /\ outcome'[p].call = "updateTask" /\ outcome'[p].kind = "task"
           /\ outcome'[q].call = "updateTask" /\ outcome'[q].kind = "task")
            => /\ outcome'[p].value.id = outcome'[q].value.id
               /\ toTask(table'[TaskKeysPk(outcome'[p].value.id)])
                    \in {outcome'[p].value, outcome'[q].value}]_vars

\* two overlapping updateTask calls of the created task, one with a detail
\* and one with a dueAt, have both returned; the record is the one of the
\* call applied last, which read the clock first
C23_Witness ==
  \E p, q \in Callers :
    /\ ncalls = 3 /\ issued = 1
    /\ pc[p] = "done" /\ outcome[p].call = "updateTask" /\ outcome[p].kind = "task"
    /\ pc[q] = "done" /\ outcome[q].call = "updateTask" /\ outcome[q].kind = "task"
    /\ DOMAIN outcome[p].value \cap {"detail", "dueAt"} = {"detail"}
    /\ DOMAIN outcome[q].value \cap {"detail", "dueAt"} = {"dueAt"}
    /\ outcome[p].value.title # outcome[q].value.title
    /\ outcome[p].value.updatedAt = 1 /\ outcome[q].value.updatedAt = 0
    /\ toTask(table[TaskKeysPk(Uuid(1))]) = outcome[q].value

\* the calls waiting for the answer to their request
InFlight == {p \in Callers : pc[p] = "sent"}

(* C24: each call of listTasks, getTask, createTask, updateTask or
   deleteTask issues exactly one request to the table, whether the request
   succeeds or fails.  A call sends one command as it starts; while it waits
   the command stays the one it sent; the step in which the table handles
   that request, with an answer or with a failure, ends the call.  So the
   requests handled are as many as the calls that are no longer waiting:
   no retry, no batching, no second round trip. *)
C24_OneRequestPerCall ==
  [][/\ \A p \in Callers :
          (pc[p] # "sent" /\ pc'[p] = "sent")
            => /\ ncalls' = ncalls + 1 /\ nrequests' = nrequests
               /\ command'[p].op \in {"Put", "Get", "Update", "Delete", "Scan"}
     /\ \A p \in Callers :
          (pc[p] = "sent" /\ pc'[p] = "sent") => command'[p] = command[p]
     /\ \A p \in Callers :
          (pc[p] = "sent" /\ pc'[p] # "sent")
            => /\ pc'[p] = "done" /\ command'[p] = NoCommand
               /\ nrequests' = nrequests + 1 /\ ncalls' = ncalls
               /\ outcome'[p].kind = "throw" <=> response'[p].error = "StoreError"
     /\ nrequests' # nrequests => \E p \in Callers : pc[p] = "sent" /\ pc'[p] = "done"
     /\ nrequests' + Cardinality({p \in Callers : pc'[p] = "sent"}) = ncalls']_vars

\* three calls have ended, one of them on the failure of its request, and
\* the table has handled three requests
C24_Witness ==
  /\ ncalls = 3 /\ nrequests = 3 /\ InFlight = {}
  /\ \E p, q \in Callers :
       /\ outcome[p] = [call |-> "createTask", kind |-> "throw", error |-> "StoreError"]
       /\ outcome[q].call = "listTasks" /\ outcome[q].kind = "list"

\* the records stored under the keys other than k are the same in t and u
SameElsewhere(t, u, k) ==
  /\ (DOMAIN t) \ {k} = (DOMAIN u) \ {k}
  /\ \A j \in (DOMAIN t) \ {k} : t[j] = u[j]

(* C25: no partial-success state exists.  Whenever an operation ends, with
   a result, a not-found or a store error, the table is either exactly as
   before the operation's request, or the record the operation addressed is
   exactly as the whole request leaves it and every other record as before:
   for createTask the whole taskItem, for updateTask all five written
   fields with id, createdAt and pk kept, for deleteTask no record.  A call
   that returns a result has had its request applied, a call that returns
   not-found or throws has not. *)
C25_NoPartialSuccess ==
  [][\A p \in Callers :
       /\ (Handled(p, "Get") \/ Handled(p, "Scan")) => table' = table
       /\ Handled(p, "Put") =>
            LET k == command[p].Item.pk
            IN  \/ table' = table /\ outcome'[p].kind = "throw"
                \/ /\ outcome'[p].kind = "task"
                   /\ k \in DOMAIN table' /\ table'[k] = command[p].Item
                   /\ SameElsewhere(table, table', k)
       /\ Handled(p, "Update") =>
            LET k == command[p].Key
            IN  \/ table' = table /\ outcome'[p].kind \in {"null", "throw"}
                \/ /\ outcome'[p].kind = "task"
                   /\ k \in DOMAIN table /\ k \in DOMAIN table'
                   /\ WrittenPart(table'[k]) = WrittenBy(command[p].dto, command[p].now)
                   /\ \A f \in {"pk", "id", "createdAt"} : table'[k][f] = table[k][f]
                   /\ DOMAIN table'[k] \subseteq MutableFields \cup {"pk", "id", "createdAt"}
                   /\ SameElsewhere(table, table', k)
       /\ Handled(p, "Delete") =>
            LET k == command[p].Key
            IN  \/ /\ table' = table
                   /\ \/ outcome'[p].kind = "throw"
                      \/ outcome'[p].kind = "bool" /\ ~outcome'[p].value
                \/ /\ outcome'[p].kind = "bool" /\ outcome'[p].value
                   /\ k \notin DOMAIN table'
                   /\ SameElsewhere(table, table', k)]_vars

\* an updateTask of the created task has ended on a store error and
\* another one with its result, and the record is the one the second left
C25_Witness ==
  \E p, q \in Callers :
    /\ ncalls = 3 /\ issued = 1
    /\ pc[p] = "done"
    /\ outcome[p] = [call |-> "updateTask", kind |-> "throw", error |-> "StoreError"]
    /\ pc[q] = "done" /\ outcome[q].call = "updateTask" /\ outcome[q].kind = "task"
    /\ "detail" \notin DOMAIN outcome[q].value
    /\ toTask(table[TaskKeysPk(Uuid(1))]) = outcome[q].value

(* C26: in every reachable state of the table, every record is stored
   under a pk that is "TASK#" followed by the record's own id, and every
   command in flight addresses its record only through the key derived
   that way: a PutCommand by the pk of its item, a Get, Update or Delete
   command by a Key derived from the id the call was given. *)
C26_KeyDerivedFromId ==
  /\ \A k \in DOMAIN table : table[k].pk = k /\ k = "TASK#" \o table[k].id
  /\ \A p \in Callers :
       pc[p] = "sent" =>
         /\ command[p].op = "Put"
              => /\ command[p].Item.pk = "TASK#" \o command[p].Item.id
                 /\ "Key" \notin DOMAIN command[p]
         /\ command[p].op \in {"Get", "Update", "Delete"}
              => /\ command[p].Key = "TASK#" \o command[p].id
                 /\ "Item" \notin DOMAIN command[p]
         /\ command[p].op = "Scan"
              => {"Key", "Item"} \cap DOMAIN command[p] = {}

\* two records are stored and a deleteTask of one of them is in flight
C26_Witness ==
  \E p \in Callers :
    /\ Cardinality(DOMAIN table) = 2
    /\ pc[p] = "sent" /\ command[p].op = "Delete"
    /\ command[p].Key \in DOMAIN table
    /\ table[command[p].Key].id = command[p].id

(* C27: every stored record has isComplete present with a boolean value,
   and each of detail and dueAt either absent or present with a value the
   schema admits: never null, and empty only where the schema admits the
   empty string, which it does for detail and not for dueAt. *)
C27_OptionalFieldsWellFormed ==
  \A k \in DOMAIN table :
    /\ "isComplete" \in DOMAIN table[k] /\ table[k].isComplete \in BOOLEAN
    /\ "detail" \in DOMAIN table[k] => table[k].detail \in Details
    /\ "dueAt" \in DOMAIN table[k]
         => table[k].dueAt \in DueAts /\ table[k].dueAt # ""

\* one record holds the empty detail an update stored, another has neither
\* detail nor dueAt and the default isComplete
C27_Witness ==
  \E j, k \in DOMAIN table :
    /\ "detail" \in DOMAIN table[j] /\ table[j].detail = ""
    /\ "dueAt" \in DOMAIN table[j]
    /\ {"detail", "dueAt"} \cap DOMAIN table[k] = {}
    /\ table[k].isComplete = FALSE

(* C28: every stored record satisfies createdAt <= updatedAt, whatever the
   interleaving of creates, updates and deletes, on a clock that never runs
   backwards. *)
C28_CreatedNotAfterUpdated ==
  \A k \in DOMAIN table : table[k].createdAt <= table[k].updatedAt

\* one record was updated after the clock advanced, another was created
\* after it advanced
C28_Witness ==
  \E j, k \in DOMAIN table :
    /\ table[j].createdAt = 0 /\ table[j].updatedAt = MaxClock
    /\ table[k].createdAt = MaxClock /\ table[k].updatedAt = MaxClock

(* C29: createTask and updateTask treat a supplied optional value alike:
   whenever a create or an update given detail = v or dueAt = v takes
   effect, the record it wrote holds that field with the value v, the
   empty detail included. *)
C29_SuppliedValueStoredAlike ==
  [][\A p \in Callers :
       Applied(p, "Put") \/ Applied(p, "Update")
       => LET k == WrittenKey(command[p])
          IN  \A f \in {"detail", "dueAt"} :
                f \in DOMAIN command[p].dto
                => /\ f \in DOMAIN table'[k]
                   /\ table'[k][f] = command[p].dto[f]]_vars

(* C30: whenever updateTask returns not-found, the table refused the write
   and is as it was before the call's request; an updateTask whose write
   the table applied returns the updated Task, never not-found. *)
C30_NotFoundMeansUnmodified ==
  [][\A p \in Callers :
       Handled(p, "Update")
       => /\ outcome'[p].kind = "null"
               => /\ response'[p].error = "ConditionalCheckFailedException"
                  /\ table' = table /\ mutated' = mutated
          /\ response'[p].error = "none"
               => /\ outcome'[p].kind = "task"
                  /\ command[p].Key \in mutated']_vars

\* an updateTask of an id without record has returned not-found beside a
\* stored record no update or delete has touched, and another updateTask
\* has returned the Task it wrote
C30_Witness ==
  \E p, q \in Callers :
    /\ pc[p] = "done" /\ outcome[p].call = "updateTask" /\ outcome[p].kind = "null"
    /\ pc[q] = "done" /\ outcome[q].call = "updateTask" /\ outcome[q].kind = "task"
    /\ \E k \in DOMAIN table : toTask(table[k]) = outcome[q].value
    /\ Cardinality(mutated) = 1
====
